---- MODULE Spec2Model ----
(***************************************************************************)
(* Model of src/backup241018.c: the AD9361 spectrum analyser built on      *)
(* libiio and fftw3.  One thread of control runs main() (INIT, the         *)
(* streaming loop, the cleanup at the end of main and shutdown()); the     *)
(* SIGINT handler handle_sig() runs asynchronously between any two steps.  *)
(*                                                                         *)
(* Scaling.  The source streams blocks of 1024*1024 samples and transforms *)
(* the first 1024 of them.  The model keeps the structure and scales the   *)
(* sizes: BufferSize samples per block, FftSize = 4 points per transform.  *)
(* For 4 points the Hann window and the DFT are exact in integers: the     *)
(* window is carried multiplied by 4, and the twiddle factors are powers   *)
(* of -i.  Complex numbers are pairs <<re, im>>.                           *)
(*                                                                         *)
(* Not modelled: failure of malloc, fftw_malloc and fopen (the source does *)
(* not test their results), and the contents of output.csv and input.csv   *)
(* (nothing is ever written to them).                                      *)
(***************************************************************************)
EXTENDS Integers, Sequences, FiniteSets

\* ---------------------------------------------------------------- bounds
\* Cycles of the streaming loop the model lets the program start.
MaxCycles == 3
\* Samples per transport block (the source: 1024 * 1024, line 320).
BufferSize == 5
\* Samples delivered by a refill that returns less than a full block.
ShortCount == 2

\* ------------------------------------------------------- program constants
\* fft_size (line 335; 1024 in the source, 4 here, see "Scaling").
FftSize == 4
\* iio_device_get_sample_size(): bytes per I/Q pair, two int16 (lines 395-396).
SampleSize == 4
\* the status shutdown() passes to exit() (line 99).
ExitOk == 0
\* how a shell reports a process killed by abort(): 128 + SIGABRT (line 41).
ExitAbort == 134

\* The int16 I/Q pairs the transport may deliver.
Samples == { <<1, 0>>, <<0, 1>> }
\* What the array in[] may hold before anything was copied into it
\* (fftw_malloc does not initialise, line 336).
Garbage == { <<0, 0>>, <<4, 4>> }

VARIABLES
    pc,          \* position of main()
    stop,        \* static bool stop (line 82)
    handles,     \* ctx, rx0_i, rx0_q, tx0_i, tx0_q, rxbuf, txbuf (lines 74-80)
    heap,        \* plan, in, out, win: "none" | "held" | "freed"
    files,       \* fp1, fp2: "none" | "open" | "closed"
    released,    \* the release calls made so far, in order
    shutdown_calls, \* how many times shutdown() was entered
    exit_status, \* << >> while running, <<s>> once the process ended with status s
    nrx, ntx,    \* cumulative sample counters (lines 262-263)
    nbytes_rx, nbytes_tx, \* what the last refill / push returned
    rxdata,      \* the samples between iio_buffer_first and iio_buffer_end of rxbuf
    txdata,      \* the samples of txbuf, each carried as the phase it was synthesised at
    win, in, out, \* the arrays of the transform
    fft_csv,     \* the lines of fft.csv
    phase,       \* double i of the loop body, in sample periods 1/fs_hz
    tx_outstanding, rx_outstanding, \* transport calls issued and not yet returned
    cycle,       \* cycles started
    completed,   \* cycles that ran to the end of the loop body
    npush, nrefill, npublish, ncount, nsynth, \* how often each step ran
    io_error,    \* "none" | "push" | "refill": the transport call that failed
    all_full,    \* every refill so far returned a full block
    sig_cycle,   \* where stop was first set: -1 not yet, 0 before the first
                 \* loop test, n in cycle n, -2 between two cycles
    out_cycle,   \* the cycle whose fftw_execute wrote out[]
    first_phase, last_phase, prev_last_phase, \* phases used by the last two syntheses
    plan,        \* fftw_plan plan: 0 before line 338, then the number of the plan made
    plans_made,  \* how many times fftw_plan_dft_1d was called
    plan_execs,  \* the << plan, its state >> pairs fftw_execute was called with
    tx_by,       \* the cycle whose synthesis wrote txbuf last (0: never written)
    synth_log,   \* the block each synthesis wrote, in order
    pushed,      \* per push issued: the block txbuf held and who wrote it
    rx_cycle, in_cycle, fft_cycle, \* the cycle whose refill rxbuf, in[] and fft.csv come from
    npush_ok, nrefill_ok, \* pushes and refills that returned without error
    init_fail,   \* "none" | "attr" | "rxbuf" | "txbuf": what sent INIT to shutdown()
    checks       \* how often the loop condition was evaluated

vars == << pc, stop, handles, heap, files, released, shutdown_calls, exit_status,
           nrx, ntx, nbytes_rx, nbytes_tx, rxdata, txdata, win, in, out, fft_csv,
           phase, tx_outstanding, rx_outstanding, cycle, completed, npush,
           nrefill, npublish, ncount, nsynth, io_error, all_full, sig_cycle,
           out_cycle, first_phase, last_phase, prev_last_phase, plan, plans_made,
           plan_execs, tx_by, synth_log, pushed, rx_cycle, in_cycle, fft_cycle,
           npush_ok, nrefill_ok, init_fail, checks >>

HandleNames == { "ctx", "rx0_i", "rx0_q", "tx0_i", "tx0_q", "rxbuf", "txbuf" }
Channels == << "rx0_i", "rx0_q", "tx0_i", "tx0_q" >>
\* ------------------------------------------------------------ pure helpers
\* complex arithmetic on pairs
CAdd(a, b) == << a[1] + b[1], a[2] + b[2] >>
CScale(a, r) == << a[1] * r, a[2] * r >>
\* a * (-i)^p, the twiddle factor exp(-2 pi i p / 4) of a 4-point forward DFT
CMulTwiddle(a, p) ==
    CASE p % 4 = 0 -> a
      [] p % 4 = 1 -> << a[2], 0 - a[1] >>
      [] p % 4 = 2 -> << 0 - a[1], 0 - a[2] >>
      [] p % 4 = 3 -> << 0 - a[2], a[1] >>
\* |a|^2; cabs(a) is its square root
MagSq(a) == a[1] * a[1] + a[2] * a[2]

\* win_hanning(j, n), lines 236-243, times 4: 4 * 0.5 * (1 - cos(2 pi j / (n - 1))).
\* For n = 4, 2 cos(2 pi j / 3) is 2 when 3 divides j and -1 otherwise.
win_hanning(j, n) == 2 - (IF j % (n - 1) = 0 THEN 2 ELSE 0 - 1)

\* fftw_execute(plan), line 392: the forward DFT of length FftSize planned at
\* line 338, out[k] = SUM_m in[m] * exp(-2 pi i k m / FftSize), k, m from 0.
RECURSIVE DftSum(_, _, _)
DftSum(x, k, m) ==
    IF m = FftSize THEN << 0, 0 >>
    ELSE CAdd(CMulTwiddle(x[m + 1], k * m), DftSum(x, k, m + 1))
fftw_execute(x) == [ k \in 1..FftSize |-> DftSum(x, k - 1, 0) ]

\* One line of fft.csv, line 403: the frequency of bin cnt (in units of
\* fs_hz / fft_size) and the magnitude, carried as |out[cnt]|^2 of which
\* 20 log10 cabs is a strictly increasing function (0 stands for -inf).
SpectrumLine(cnt, z) == << cnt, MagSq(z) >>

\* Lines 371-390: the window, then the copy of the first fft_size samples
\* of the refilled block into in[]; cells beyond the block keep what they held.
Window == [ k \in 1..FftSize |-> win_hanning(k - 1, FftSize) ]
\* Variant of the copy: without the cnt = 0 of line 375, cnt is still
\* fft_size after the window loop and no sample is copied.
CopyInCntNotReset(old, data, w) == old
CopyIn(old, data, w) ==
    [ k \in 1..FftSize |->
        IF k <= Len(data) THEN CScale(data[k], w[k]) ELSE old[k] ]

\* Variant of the sample count: the byte count is added undivided.
SampleCountBytes(nbytes, size) == nbytes
\* nbytes / iio_device_get_sample_size(dev), lines 395-396
SampleCount(nbytes, size) == nbytes \div size
\* nrx += ..., ntx += ...: size_t addition; the counts of the model stay far
\* below 2^64, where it would wrap
SizeAdd(a, b) == a + b

\* Variant of the open mode: fopen("fft.csv", "a") keeps what the file held.
fopen_a(content) == content
\* fopen("fft.csv", "w"), line 399: the file is truncated
fopen_w(content) == << >>
\* the loop of lines 401-407 appends fft_size lines
WriteSpectrum(content, o) ==
    content \o [ k \in 1..FftSize |-> SpectrumLine(k - 1, o[k]) ]

\* Lines 419-433: the phase starts at one sample period and advances by one
\* per sample; sample k of the block is synthesised at phase start + k - 1.
PhaseStart(prev) == 1
Synthesize(start, n) == [ k \in 1..n |-> start + k - 1 ]

\* what a transport call may return: a negative errno, or a byte count
PushReturns == { 0 - 1, ShortCount * SampleSize, BufferSize * SampleSize }
RefillReturns == { 0 - 1, ShortCount * SampleSize, BufferSize * SampleSize }
\* the samples a refill of nbytes bytes leaves between iio_buffer_first and
\* iio_buffer_end, lines 365 and 376
Blocks(nbytes) == [ 1..(nbytes \div SampleSize) -> Samples ]

\* Variant of the release order: the context is destroyed first.
ShutdownOrderCtxFirst ==
    << "ctx", "rxbuf", "txbuf", "rx0_i", "rx0_q", "tx0_i", "tx0_q" >>
\* shutdown(), lines 85-100: the order in which the handles are tested and
\* released.
ShutdownOrder == << "rxbuf", "txbuf", "rx0_i", "rx0_q", "tx0_i", "tx0_q", "ctx" >>
\* Variant of the tests: shutdown() releases without testing the handle.
IsSetUntested(h, n) == TRUE
\* if (rxbuf), if (txbuf), ..., if (ctx), lines 88-98
IsSet(h, n) == h[n] # "NULL"
ReleaseCalls(h) == SelectSeq(ShutdownOrder, LAMBDA n : IsSet(h, n))
AfterShutdown(h) ==
    [ n \in HandleNames |-> IF IsSet(h, n) THEN "released" ELSE "NULL" ]
\* exit(), line 99: the C library closes every stream that is still open
ExitCloses(f) == [ n \in DOMAIN f |-> IF f[n] = "open" THEN "closed" ELSE f[n] ]

Init ==
    /\ pc = "acquire_ctx"
    /\ stop = FALSE
    /\ handles = [ n \in HandleNames |-> "NULL" ]
    /\ heap = [ n \in { "plan", "in", "out", "win" } |-> "none" ]
    /\ files = [ n \in { "fp1", "fp2" } |-> "none" ]
    /\ released = << >>
    /\ shutdown_calls = 0
    /\ exit_status = << >>
    /\ nrx = 0 /\ ntx = 0
    /\ nbytes_rx = 0 /\ nbytes_tx = 0
    /\ rxdata = << >>
    /\ txdata = << >>
    /\ win = << >> /\ in = << >> /\ out = << >>
    /\ fft_csv = << >>
    /\ phase = 0
    /\ tx_outstanding = 0 /\ rx_outstanding = 0
    /\ cycle = 0 /\ completed = 0
    /\ npush = 0 /\ nrefill = 0 /\ npublish = 0 /\ ncount = 0 /\ nsynth = 0
    /\ io_error = "none"
    /\ all_full = TRUE
    /\ sig_cycle = 0 - 1
    /\ out_cycle = 0
    /\ first_phase = 0 /\ last_phase = 0 /\ prev_last_phase = 0
    /\ plan = 0 /\ plans_made = 0 /\ plan_execs = { }
    /\ tx_by = 0 /\ synth_log = << >> /\ pushed = << >>
    /\ rx_cycle = 0 /\ in_cycle = 0 /\ fft_cycle = 0
    /\ npush_ok = 0 /\ nrefill_ok = 0
    /\ init_fail = "none"
    /\ checks = 0

\* ----------------------------------------------------------------- exits
\* Variant of exit: shutdown() without its exit(0) returns to its caller.
exit_returns(next) == next
\* exit(0), line 99, does not return: whatever statement next follows the
\* call of shutdown(), main() never reaches it.
exit(next) == "terminated"

\* shutdown(), lines 85-100, entered with the streams in state f and the
\* release calls log made before it, from a call that next would follow: releases
\* every handle that is set, in ShutdownOrder, and exits with status 0.
shutdown(f, log, next) ==
    /\ handles' = AfterShutdown(handles)
    /\ released' = log \o ReleaseCalls(handles)
    /\ shutdown_calls' = shutdown_calls + 1
    /\ files' = ExitCloses(f)
    /\ exit_status' = << ExitOk >>
    /\ pc' = exit(next)

\* ASSERT(expr) with expr false, lines 38-43: abort() ends the process with
\* SIGABRT.  shutdown() is not entered and nothing is released.
AssertFailed ==
    /\ exit_status' = << ExitAbort >>
    /\ pc' = "terminated"
    /\ UNCHANGED << released, shutdown_calls, files >>

Ghosts == << cycle, completed, npush, nrefill, npublish, ncount, nsynth,
             io_error, all_full, sig_cycle, out_cycle, first_phase,
             last_phase, prev_last_phase >>
Trace == << plan, plans_made, plan_execs, tx_by, synth_log, pushed, rx_cycle,
           in_cycle, fft_cycle, npush_ok, nrefill_ok, init_fail, checks >>
Data == << nrx, ntx, nbytes_rx, nbytes_tx, rxdata, txdata, win, in, out,
           fft_csv, phase, tx_outstanding, rx_outstanding >>

\* ------------------------------------------------------------------ INIT
\* Lines 295-300: the context and the two streaming devices.
AcquireContext ==
    /\ pc = "acquire_ctx"
    /\ \/ /\ handles' = [ handles EXCEPT !["ctx"] = "held" ]
          /\ pc' = "configure"
          /\ UNCHANGED << released, shutdown_calls, files, exit_status >>
       \/ \* line 295: no context
          /\ UNCHANGED handles
          /\ AssertFailed
       \/ \* lines 296-300: no devices
          /\ handles' = [ handles EXCEPT !["ctx"] = "held" ]
          /\ AssertFailed
    /\ UNCHANGED << Trace, stop, heap, Data, Ghosts >>

\* Lines 303-304: cfg_ad9361_streaming_ch for RX and TX.  An attribute write
\* that fails goes through errchk() to shutdown() (line 110); a channel that
\* is not found fails the ASSERT.
ConfigureStreaming ==
    /\ pc = "configure"
    /\ \/ /\ pc' = "init_channels"
          /\ UNCHANGED << handles, released, shutdown_calls, files, exit_status,
                          init_fail >>
       \/ /\ shutdown(files, released, "init_channels")
          /\ init_fail' = "attr"
       \/ /\ UNCHANGED << handles, init_fail >>
          /\ AssertFailed
    /\ UNCHANGED << plan, plans_made, plan_execs, tx_by, synth_log, pushed,
                    rx_cycle, in_cycle, fft_cycle, npush_ok, nrefill_ok, checks,
                    stop, heap, Data, Ghosts >>

\* Lines 307-310: the four streaming channels are looked up in order; the
\* first found of them are set when a lookup fails its ASSERT.
InitChannels ==
    /\ pc = "init_channels"
    /\ \E found \in 0..Len(Channels) :
        /\ handles' = [ n \in HandleNames |->
                          IF \E k \in 1..found : Channels[k] = n
                          THEN "found" ELSE handles[n] ]
        /\ IF found = Len(Channels)
           THEN /\ pc' = "enable"
                /\ UNCHANGED << released, shutdown_calls, files, exit_status >>
           ELSE AssertFailed
    /\ UNCHANGED << Trace, stop, heap, Data, Ghosts >>

\* Lines 315-318: iio_channel_enable on the four channels.
EnableChannels ==
    /\ pc = "enable"
    /\ handles' = [ n \in HandleNames |->
                      IF handles[n] = "found" THEN "enabled" ELSE handles[n] ]
    /\ pc' = "create_rxbuf"
    /\ UNCHANGED << Trace, stop, heap, files, released, shutdown_calls, exit_status,
                    Data, Ghosts >>

\* Lines 323-327 (buf = "rxbuf") and 328-332 (buf = "txbuf").  A buffer is
\* created with its whole length as data; the samples of a new TX buffer
\* were never synthesised (phase 0).
CreateBuffer(at, buf, next) ==
    /\ pc = at
    /\ \/ /\ handles' = [ handles EXCEPT ![buf] = "held" ]
          /\ txdata' = IF buf = "txbuf" THEN [ k \in 1..BufferSize |-> 0 ] ELSE txdata
          /\ pc' = next
          /\ UNCHANGED << released, shutdown_calls, files, exit_status, init_fail >>
       \/ /\ shutdown(files, released, next)
          /\ init_fail' = buf
          /\ UNCHANGED txdata
    /\ UNCHANGED << plan, plans_made, plan_execs, tx_by, synth_log, pushed,
                    rx_cycle, in_cycle, fft_cycle, npush_ok, nrefill_ok, checks,
                    stop, heap, nrx, ntx, nbytes_rx, nbytes_tx, rxdata, win, in,
                    out, fft_csv, phase, tx_outstanding, rx_outstanding, Ghosts >>
CreateRxBuffer == CreateBuffer("create_rxbuf", "rxbuf", "create_txbuf")
CreateTxBuffer == CreateBuffer("create_txbuf", "txbuf", "configure_fft")

\* Lines 335-339: in, out, the plan and win.  in[] comes uninitialised.
ConfigureFft ==
    /\ pc = "configure_fft"
    /\ heap' = [ n \in DOMAIN heap |-> "held" ]
    /\ plans_made' = plans_made + 1
    /\ plan' = plans_made + 1
    /\ in' \in [ 1..FftSize -> Garbage ]
    /\ pc' = "open_sinks"
    /\ UNCHANGED << plan_execs, tx_by, synth_log, pushed, rx_cycle, in_cycle, fft_cycle, npush_ok, nrefill_ok, init_fail, checks,
                    stop, handles, files, released, shutdown_calls, exit_status,
                    nrx, ntx, nbytes_rx, nbytes_tx, rxdata, txdata, win, out, fft_csv,
                    phase, tx_outstanding, rx_outstanding, Ghosts >>

\* Lines 343-344: output.csv and input.csv.
OpenSinks ==
    /\ pc = "open_sinks"
    /\ files' = [ n \in DOMAIN files |-> "open" ]
    /\ pc' = "loop_top"
    /\ UNCHANGED << Trace, stop, handles, heap, released, shutdown_calls, exit_status,
                    Data, Ghosts >>

\* ------------------------------------------------------------- STREAMING
Proc == << handles, heap, files, released, shutdown_calls, exit_status >>
InCycle == { "push", "push_wait", "refill", "refill_wait", "demux", "fft",
             "count", "publish", "synth" }

\* Variant of the loop condition: while (1), as in tx_thread (line 229).
LoopConditionAlways == TRUE
\* Line 348: while (!stop).
LoopCondition == ~stop
LoopTop ==
    /\ pc = "loop_top"
    /\ checks' = checks + 1
    /\ IF ~LoopCondition
       THEN /\ pc' = "cleanup"
            /\ UNCHANGED cycle
       ELSE /\ cycle < MaxCycles
            /\ cycle' = cycle + 1
            /\ pc' = "push"
    /\ UNCHANGED << plan, plans_made, plan_execs, tx_by, synth_log, pushed, rx_cycle, in_cycle, fft_cycle, npush_ok, nrefill_ok, init_fail,
                    stop, Proc, Data, completed, npush, nrefill, npublish,
                    ncount, nsynth, io_error, all_full, sig_cycle, out_cycle,
                    first_phase, last_phase, prev_last_phase >>

\* Variant of the push: a call that queues the block and returns at once.
PushReturnsAtOnce == "refill"
\* where main() is while a transport call has not returned: the calls block
PushBlocks == "push_wait"
RefillBlocks == "refill_wait"

\* Line 355: iio_buffer_push(txbuf) is called.
PushCall ==
    /\ pc = "push"
    /\ tx_outstanding' = tx_outstanding + 1
    /\ npush' = npush + 1
    /\ pushed' = Append(pushed, [ by |-> tx_by, data |-> txdata ])
    /\ pc' = PushBlocks
    /\ UNCHANGED << plan, plans_made, plan_execs, tx_by, synth_log, rx_cycle, in_cycle, fft_cycle, npush_ok, nrefill_ok, init_fail, checks,
                    stop, Proc, nrx, ntx, nbytes_rx, nbytes_tx, rxdata, txdata,
                    win, in, out, fft_csv, phase, rx_outstanding, cycle,
                    completed, nrefill, npublish, ncount, nsynth, io_error,
                    all_full, sig_cycle, out_cycle, first_phase, last_phase,
                    prev_last_phase >>

\* Variant of the error test: the return value is not looked at.
FailedIgnored(nbytes) == FALSE
\* nbytes < 0, lines 356 and 360
Failed(nbytes) == nbytes < 0

\* Lines 355-356: the push returns; a negative value goes to shutdown().
PushReturn ==
    /\ pc = "push_wait"
    /\ tx_outstanding > 0
    /\ tx_outstanding' = tx_outstanding - 1
    /\ \E r \in PushReturns :
        /\ nbytes_tx' = r
        /\ npush_ok' = IF r < 0 THEN npush_ok ELSE npush_ok + 1
        /\ IF Failed(r)
           THEN /\ io_error' = "push"
                /\ shutdown(files, released, "refill")
           ELSE /\ pc' = "refill"
                /\ UNCHANGED << io_error, handles, files, released,
                                shutdown_calls, exit_status >>
    /\ UNCHANGED << plan, plans_made, plan_execs, tx_by, synth_log, pushed, rx_cycle, in_cycle, fft_cycle, nrefill_ok, init_fail, checks,
                    stop, heap, nrx, ntx, nbytes_rx, rxdata, txdata, win, in,
                    out, fft_csv, phase, rx_outstanding, cycle, completed,
                    npush, nrefill, npublish, ncount, nsynth, all_full,
                    sig_cycle, out_cycle, first_phase, last_phase,
                    prev_last_phase >>

\* Line 359: iio_buffer_refill(rxbuf) is called.
RefillCall ==
    /\ pc = "refill"
    /\ rx_outstanding' = rx_outstanding + 1
    /\ nrefill' = nrefill + 1
    /\ pc' = RefillBlocks
    /\ UNCHANGED << Trace, stop, Proc, nrx, ntx, nbytes_rx, nbytes_tx, rxdata, txdata,
                    win, in, out, fft_csv, phase, tx_outstanding, cycle,
                    completed, npush, npublish, ncount, nsynth, io_error,
                    all_full, sig_cycle, out_cycle, first_phase, last_phase,
                    prev_last_phase >>

\* Lines 359-360: the refill returns with the bytes it read, which are the
\* data of rxbuf from then on; a negative value goes to shutdown().
RefillReturn ==
    /\ pc = "refill_wait"
    /\ rx_outstanding > 0
    /\ rx_outstanding' = rx_outstanding - 1
    /\ \E r \in RefillReturns :
        /\ nbytes_rx' = r
        /\ nrefill_ok' = IF r < 0 THEN nrefill_ok ELSE nrefill_ok + 1
        /\ rx_cycle' = IF r < 0 THEN rx_cycle ELSE cycle
        /\ IF Failed(r)
           THEN /\ io_error' = "refill"
                /\ shutdown(files, released, "demux")
                /\ UNCHANGED << rxdata, all_full >>
           ELSE /\ \E b \in Blocks(r) : rxdata' = b
                /\ all_full' = (all_full /\ r = BufferSize * SampleSize)
                /\ pc' = "demux"
                /\ UNCHANGED << io_error, handles, files, released,
                                shutdown_calls, exit_status >>
    /\ UNCHANGED << plan, plans_made, plan_execs, tx_by, synth_log, pushed, in_cycle, fft_cycle, npush_ok, init_fail, checks,
                    stop, heap, nrx, ntx, nbytes_tx, txdata, win, in, out,
                    fft_csv, phase, tx_outstanding, cycle, completed, npush,
                    nrefill, npublish, ncount, nsynth, sig_cycle, out_cycle,
                    first_phase, last_phase, prev_last_phase >>

\* Lines 364-390: the window is computed and the block is walked from
\* iio_buffer_first to iio_buffer_end; the first fft_size samples go to in[].
Demux ==
    /\ pc = "demux"
    /\ win' = Window
    /\ in' = CopyIn(in, rxdata, Window)
    /\ in_cycle' = rx_cycle
    /\ pc' = "fft"
    /\ UNCHANGED << plan, plans_made, plan_execs, tx_by, synth_log, pushed, rx_cycle, fft_cycle, npush_ok, nrefill_ok, init_fail, checks,
                    stop, Proc, nrx, ntx, nbytes_rx, nbytes_tx, rxdata, txdata,
                    out, fft_csv, phase, tx_outstanding, rx_outstanding, Ghosts >>

\* Variant of the plan used: a new plan is made for every transform.
PlanRemade(p, made) == made + 1
\* Line 392: fftw_execute(plan) runs the plan that the variable plan holds,
\* which only line 338 assigns.
PlanUsed(p, made) == p

\* Line 392.
FftExecute ==
    /\ pc = "fft"
    /\ out' = fftw_execute(in)
    /\ plan_execs' = plan_execs \cup { << PlanUsed(plan, plans_made), heap["plan"] >> }
    /\ out_cycle' = cycle
    /\ pc' = "count"
    /\ UNCHANGED << plan, plans_made, tx_by, synth_log, pushed, rx_cycle, in_cycle, fft_cycle, npush_ok, nrefill_ok, init_fail, checks,
                    stop, Proc, nrx, ntx, nbytes_rx, nbytes_tx, rxdata, txdata,
                    win, in, fft_csv, phase, tx_outstanding, rx_outstanding,
                    cycle, completed, npush, nrefill, npublish, ncount, nsynth,
                    io_error, all_full, sig_cycle, first_phase, last_phase,
                    prev_last_phase >>

\* Lines 395-397.
Count ==
    /\ pc = "count"
    /\ nrx' = SizeAdd(nrx, SampleCount(nbytes_rx, SampleSize))
    /\ ntx' = SizeAdd(ntx, SampleCount(nbytes_tx, SampleSize))
    /\ ncount' = ncount + 1
    /\ pc' = "publish"
    /\ UNCHANGED << Trace, stop, Proc, nbytes_rx, nbytes_tx, rxdata, txdata, win, in,
                    out, fft_csv, phase, tx_outstanding, rx_outstanding, cycle,
                    completed, npush, nrefill, npublish, nsynth, io_error,
                    all_full, sig_cycle, out_cycle, first_phase, last_phase,
                    prev_last_phase >>

\* Variant of the loop body: the synthesis of lines 410-433 is left out.
AfterPublishNoSynthesis == "loop_top"
\* Line 408 is followed by the synthesis of the next outgoing block.
AfterPublish == "synth"

\* Lines 399-408: fft.csv is opened, written and closed.
Publish ==
    /\ pc = "publish"
    /\ fft_csv' = WriteSpectrum(fopen_w(fft_csv), out)
    /\ npublish' = npublish + 1
    /\ fft_cycle' = in_cycle
    /\ pc' = AfterPublish
    /\ UNCHANGED << plan, plans_made, plan_execs, tx_by, synth_log, pushed, rx_cycle, in_cycle, npush_ok, nrefill_ok, init_fail, checks,
                    stop, Proc, nrx, ntx, nbytes_rx, nbytes_tx, rxdata, txdata,
                    win, in, out, phase, tx_outstanding, rx_outstanding, cycle,
                    completed, npush, nrefill, ncount, nsynth, io_error,
                    all_full, sig_cycle, out_cycle, first_phase, last_phase,
                    prev_last_phase >>

\* Lines 411-433: every sample of txbuf is written; the loop body ends.
SynthesizeTx ==
    /\ pc = "synth"
    /\ LET start == PhaseStart(phase) IN
        /\ txdata' = Synthesize(start, BufferSize)
        /\ phase' = start + BufferSize
        /\ first_phase' = start
        /\ last_phase' = start + BufferSize - 1
    /\ prev_last_phase' = last_phase
    /\ nsynth' = nsynth + 1
    /\ tx_by' = cycle
    /\ synth_log' = Append(synth_log, txdata')
    /\ completed' = completed + 1
    /\ pc' = "loop_top"
    /\ UNCHANGED << plan, plans_made, plan_execs, pushed, rx_cycle, in_cycle, fft_cycle, npush_ok, nrefill_ok, init_fail, checks,
                    stop, Proc, nrx, ntx, nbytes_rx, nbytes_tx, rxdata, win, in,
                    out, fft_csv, tx_outstanding, rx_outstanding, cycle, npush,
                    nrefill, npublish, ncount, io_error, all_full, sig_cycle,
                    out_cycle >>

\* --------------------------------------------------------- SHUTTING_DOWN
\* Lines 444-448: what the end of main() releases before it calls shutdown().
CleanupCalls == << "fp1", "fp2", "plan", "in", "out" >>

\* Lines 444-452: the loop was left; fclose, fftw_destroy_plan, fftw_free,
\* then shutdown().  win is never freed.
Cleanup ==
    /\ pc = "cleanup"
    /\ heap' = [ n \in DOMAIN heap |->
                   IF \E k \in 1..Len(CleanupCalls) : CleanupCalls[k] = n
                   THEN "freed" ELSE heap[n] ]
    /\ shutdown([ n \in DOMAIN files |-> "closed" ], released \o CleanupCalls,
                "returned")
    /\ UNCHANGED << Trace, stop, Data, Ghosts >>

\* ----------------------------------------------------------- the signal
\* handle_sig(), lines 102-106, installed at line 276: SIGINT may arrive
\* between any two steps of a running process.
handle_sig ==
    /\ pc # "terminated"
    /\ stop' = TRUE
    /\ sig_cycle' = IF stop THEN sig_cycle
                    ELSE IF pc \in InCycle THEN cycle
                    ELSE IF cycle = 0 THEN 0 ELSE 0 - 2
    /\ UNCHANGED << Trace, pc, Proc, Data, cycle, completed, npush, nrefill, npublish,
                    ncount, nsynth, io_error, all_full, out_cycle, first_phase,
                    last_phase, prev_last_phase >>

Next ==
    \/ AcquireContext
    \/ ConfigureStreaming
    \/ InitChannels
    \/ EnableChannels
    \/ CreateRxBuffer
    \/ CreateTxBuffer
    \/ ConfigureFft
    \/ OpenSinks
    \/ LoopTop
    \/ PushCall
    \/ PushReturn
    \/ RefillCall
    \/ RefillReturn
    \/ Demux
    \/ FftExecute
    \/ Count
    \/ Publish
    \/ SynthesizeTx
    \/ Cleanup
    \/ handle_sig

Spec == Init /\ [][Next]_vars

\* The steps of main().  The thread of control keeps running and, as the
\* transport promises, every push and refill that was called returns: weak
\* fairness of main()'s steps.  Nothing is assumed about when, or whether,
\* SIGINT arrives.
MainStep ==
    \/ AcquireContext \/ ConfigureStreaming \/ InitChannels \/ EnableChannels
    \/ CreateRxBuffer \/ CreateTxBuffer \/ ConfigureFft \/ OpenSinks
    \/ LoopTop \/ PushCall \/ PushReturn \/ RefillCall \/ RefillReturn
    \/ Demux \/ FftExecute \/ Count \/ Publish \/ SynthesizeTx \/ Cleanup
FairSpec == Spec /\ WF_vars(MainStep)

\* ================================================================ claims
Terminated == pc = "terminated"
Pos(name) == CHOOSE k \in 1..Len(released) : released[k] = name
Was(name) == \E k \in 1..Len(released) : released[k] = name
Before(a, b) == (Was(a) /\ Was(b)) => Pos(a) < Pos(b)

\* C1 as stated: when the flag was set inside cycle n and no transport call
\* failed, exactly one more full cycle has completed after cycle n when the
\* process exits (n + 1 cycles in all), and the exit status is 0.
C1_OneMoreCycleAfter ==
    (Terminated /\ sig_cycle >= 1 /\ io_error = "none")
        => (completed = sig_cycle + 1 /\ exit_status = << ExitOk >>)

\* C1 amended: when the flag was set inside cycle n (after that cycle's
\* loop-top check), cycle n is the last cycle: no further cycle is started;
\* the loop is left only once cycle n has run to its end (push, refill,
\* analysis, publish, synthesis), and a process that has exited ran
\* shutdown() once and exited with status 0, with n cycles completed unless
\* a transport call of cycle n failed.
C1_SetCycleIsLast ==
    sig_cycle >= 1 =>
        /\ cycle = sig_cycle
        /\ npush <= sig_cycle /\ nrefill <= sig_cycle /\ npublish <= sig_cycle
        /\ pc = "cleanup" => completed = sig_cycle
        /\ Terminated =>
            /\ exit_status = << ExitOk >>
            /\ shutdown_calls = 1
            /\ io_error = "none" =>
                /\ completed = sig_cycle
                /\ npush = sig_cycle /\ nrefill = sig_cycle
                /\ npublish = sig_cycle /\ nsynth = sig_cycle
C1_Witness ==
    /\ Terminated /\ io_error = "none"
    /\ sig_cycle = 2 /\ completed = 2 /\ cycle = 2
    /\ exit_status = << ExitOk >>

\* C2 as stated: every execution that reaches process exit has run
\* shutdown() exactly once.
C2_ShutdownExactlyOnce == Terminated => shutdown_calls = 1

\* C3 as stated: after a fatal transport error the process exits with the
\* plan and the in and out arrays released, output.csv and input.csv closed
\* by the program, the transport buffers, channels and context released, and
\* nothing that INIT acquired still held.
C3_FullReleaseOnTransportError ==
    (Terminated /\ io_error # "none") =>
        /\ \A n \in DOMAIN heap : heap[n] = "freed"
        /\ Was("fp1") /\ Was("fp2")
        /\ \A n \in DOMAIN files : files[n] = "closed"
        /\ \A n \in HandleNames : handles[n] = "released"

\* C4: a negative return of the push or of the refill is fatal with no
\* retry.  Once a push has failed the process has exited, no refill was
\* issued for that cycle, and the cycle published nothing, updated no
\* counter and synthesised nothing; the same once a refill has failed; and
\* no transport call is issued afterwards.
C4_TransportErrorIsFatal ==
    /\ io_error = "push" =>
        /\ Terminated
        /\ nrefill = npush - 1
        /\ npublish = npush - 1 /\ ncount = npush - 1 /\ nsynth = npush - 1
        /\ npush = cycle
        /\ tx_outstanding = 0 /\ rx_outstanding = 0
    /\ io_error = "refill" =>
        /\ Terminated
        /\ nrefill = npush
        /\ npublish = nrefill - 1 /\ ncount = nrefill - 1 /\ nsynth = nrefill - 1
        /\ nrefill = cycle
        /\ tx_outstanding = 0 /\ rx_outstanding = 0
C4_Witness ==
    /\ io_error = "push" /\ Terminated
    /\ npush = 2 /\ nrefill = 1 /\ npublish = 1

\* C5: with no transport error and every refill returning a full block, the
\* cumulative RX counter is (number of counter updates) * BufferSize, and
\* after N completed cycles it is N * BufferSize.
C5_RxCounter ==
    (io_error = "none" /\ all_full) =>
        /\ nrx = ncount * BufferSize
        /\ pc \in { "loop_top", "cleanup", "terminated" }
              => nrx = completed * BufferSize
C5_Witness ==
    /\ pc = "loop_top" /\ io_error = "none" /\ all_full
    /\ completed = 2 /\ nrx = 2 * BufferSize

\* C6 as stated: the TX phase is never reset, so the first sample of a
\* cycle is synthesised one sample period after the last sample of the
\* cycle before it, and after N cycles of BufferSize samples the last phase
\* used is N * BufferSize sample periods.
C6_PhaseContinuous ==
    /\ nsynth >= 2 => first_phase = prev_last_phase + 1
    /\ nsynth >= 1 => last_phase = nsynth * BufferSize

\* C7 as stated: whatever ended the process, its exit status is 0.
C7_ExitStatusZero == Terminated => exit_status = << ExitOk >>

\* C8 as stated: shutdown() releases the TX buffer before the RX buffer and
\* both buffers before the context.
C8_TxBufferFirst ==
    /\ Before("txbuf", "rxbuf")
    /\ Before("txbuf", "ctx") /\ Before("rxbuf", "ctx")

\* C8 amended: shutdown() releases the RX (incoming) buffer before the TX
\* (outgoing) buffer and both buffers before the context.
C8_RxBufferFirst ==
    /\ Before("rxbuf", "txbuf")
    /\ Before("txbuf", "ctx") /\ Before("rxbuf", "ctx")
C8_Witness ==
    /\ Terminated
    /\ Was("rxbuf") /\ Was("txbuf") /\ Was("ctx")

\* C9: latest spectrum wins.  fft.csv never holds more than fft_size lines,
\* and after every completed cycle it holds exactly the fft_size lines of
\* the spectrum that this cycle's transform computed.
SpectrumOf(o) == [ k \in 1..FftSize |-> SpectrumLine(k - 1, o[k]) ]
C9_LatestSpectrumWins ==
    /\ Len(fft_csv) \in { 0, FftSize }
    /\ npublish >= 1 => Len(fft_csv) = FftSize
    /\ (pc \in { "loop_top", "cleanup" } /\ completed >= 1) =>
        /\ out_cycle = completed
        /\ out = fftw_execute(in)
        /\ fft_csv = SpectrumOf(out)
C9_Witness ==
    /\ pc = "loop_top" /\ completed = 2 /\ npublish = 2
    /\ Len(fft_csv) = FftSize
    /\ \E k \in 1..FftSize : fft_csv[k][2] # 0

\* C10: at most one push and at most one refill is outstanding with the
\* transport; a push (refill) is issued only when none is outstanding; the
\* RX block is read only while no refill is outstanding and the TX block is
\* written only while no push is outstanding.
C10_OneBlockInFlight ==
    /\ tx_outstanding \in { 0, 1 }
    /\ rx_outstanding \in { 0, 1 }
    /\ pc = "push" => tx_outstanding = 0
    /\ pc = "refill" => rx_outstanding = 0
    /\ pc = "demux" => rx_outstanding = 0
    /\ pc = "synth" => tx_outstanding = 0
C10_Witness ==
    /\ pc = "push_wait" /\ tx_outstanding = 1 /\ npush = 2
    /\ rx_outstanding = 0

\* C11: the forward-transform plan is made exactly once, in INIT before the
\* first cycle; inside the loop it is neither made again nor destroyed;
\* every transform executed that one plan while it was held; it is
\* destroyed at most once, and only on the way out.
C11_PlanOnce ==
    /\ plans_made <= 1
    /\ plans_made = 0 => (cycle = 0 /\ plan_execs = { })
    /\ pc \in InCycle \cup { "loop_top", "cleanup" } =>
        (plans_made = 1 /\ plan = 1 /\ heap["plan"] = "held")
    /\ plan_execs \subseteq { << 1, "held" >> }
    /\ nsynth >= 1 => plan_execs = { << 1, "held" >> }
    /\ Was("plan") => (Terminated /\ heap["plan"] = "freed")
    /\ Cardinality({ k \in 1..Len(released) : released[k] = "plan" }) <= 1
C11_Witness ==
    /\ Terminated /\ completed = 2 /\ Was("plan")
    /\ plan_execs = { << 1, "held" >> } /\ plans_made = 1

\* C12: the block pushed in cycle 1 was never written by the synthesis; for
\* n >= 2 the block pushed in cycle n is the block the synthesis of cycle
\* n - 1 wrote, unchanged, so no synthesised block is pushed twice; and a
\* block synthesised in the last cycle of the run is never pushed.
NeverWritten == [ k \in 1..BufferSize |-> 0 ]
C12_PushedIsPreviousSynthesis ==
    /\ Len(pushed) = npush /\ Len(synth_log) = nsynth
    /\ \A n \in 1..Len(pushed) :
        /\ pushed[n].by = n - 1
        /\ pushed[n].by < cycle
        /\ IF n = 1 THEN pushed[n].data = NeverWritten
           ELSE /\ n - 1 <= Len(synth_log)
                /\ pushed[n].data = synth_log[n - 1]
    /\ \A a, b \in 1..Len(pushed) : pushed[a].by = pushed[b].by => a = b
    /\ (Terminated /\ io_error = "none" /\ nsynth >= 1) =>
        /\ tx_by = nsynth /\ tx_by = cycle
        /\ \A n \in 1..Len(pushed) : pushed[n].by # tx_by
C12_Witness ==
    /\ Terminated /\ io_error = "none"
    /\ Len(pushed) = 3 /\ tx_by = 3
    /\ pushed[1].data = NeverWritten /\ pushed[3].data = synth_log[2]

\* C13: in[k] is sample k of the refilled block times win[k], for every k
\* below fft_size that the block holds, in order; and the spectrum published
\* from a block that holds at least fft_size samples is a function of its
\* first fft_size samples alone (the samples behind them do not matter), so
\* two blocks that agree on them give the same fft.csv.
Prefix(data) == SubSeq(data, 1, FftSize)
AnalysisOf(prefix) ==
    [ k \in 1..FftSize |-> CScale(prefix[k], win_hanning(k - 1, FftSize)) ]
C13_FirstFftSizeSamples ==
    /\ pc \in { "fft", "count", "publish" } =>
        \A k \in 1..FftSize :
            k <= Len(rxdata) => in[k] = CScale(rxdata[k], win_hanning(k - 1, FftSize))
    /\ (npublish >= 1 /\ pc \notin { "demux", "fft", "count", "publish" }
            /\ Len(rxdata) >= FftSize) =>
        /\ in = AnalysisOf(Prefix(rxdata))
        /\ fft_csv = SpectrumOf(fftw_execute(AnalysisOf(Prefix(rxdata))))
C13_Witness ==
    /\ pc = "synth" /\ cycle = 2
    /\ Len(rxdata) = BufferSize /\ BufferSize > FftSize
    /\ rxdata[2] # rxdata[3] /\ rxdata[BufferSize] # rxdata[1]
    /\ fft_csv = SpectrumOf(fftw_execute(AnalysisOf(Prefix(rxdata))))

\* C14: the spectrum published in a cycle is computed from the block that
\* this cycle refilled (rxbuf, in[] and out[] all stem from the current
\* cycle when fft.csv is written), it is published only after this cycle's
\* push and refill have both returned without error, and there are never
\* more publications than successful refills.
C14_PublishAfterRefill ==
    /\ npublish <= nrefill_ok /\ npublish <= npush_ok
    /\ pc \in { "fft", "count", "publish" } =>
        (rx_cycle = cycle /\ in_cycle = cycle)
    /\ pc \in { "count", "publish" } => out_cycle = cycle
    /\ pc = "publish" =>
        (npush_ok = cycle /\ nrefill_ok = cycle /\ npublish = cycle - 1)
    /\ npublish >= 1 => fft_cycle = npublish
    /\ pc = "synth" => (fft_cycle = cycle /\ npublish = cycle)
C14_Witness ==
    /\ pc = "synth" /\ cycle = 2
    /\ fft_cycle = 2 /\ npublish = 2 /\ nrefill_ok = 2 /\ npush_ok = 2

Times(name) == Cardinality({ k \in 1..Len(released) : released[k] = name })
ChannelNames == { Channels[k] : k \in 1..Len(Channels) }
C16_ReleaseOnlyAcquired ==
    /\ \A n \in HandleNames :
        /\ Times(n) <= 1
        /\ Was(n) <=> handles[n] = "released"
        /\ Was(n) => shutdown_calls = 1
    /\ init_fail = "rxbuf" =>
        /\ Terminated /\ shutdown_calls = 1
        /\ ~Was("rxbuf") /\ ~Was("txbuf")
        /\ handles["rxbuf"] = "NULL" /\ handles["txbuf"] = "NULL"
        /\ \A c \in ChannelNames : Was(c)
        /\ Was("ctx")
    /\ init_fail = "txbuf" =>
        /\ Terminated /\ shutdown_calls = 1
        /\ Was("rxbuf") /\ ~Was("txbuf")
        /\ handles["txbuf"] = "NULL"
        /\ \A c \in ChannelNames : Was(c)
        /\ Was("ctx")
    /\ init_fail = "attr" =>
        /\ Terminated
        /\ released = << "ctx" >>
C16_Witness ==
    /\ init_fail = "txbuf" /\ Terminated
    /\ released = << "rxbuf", "rx0_i", "rx0_q", "tx0_i", "tx0_q", "ctx" >>

\* C17 as stated: when the cancellation flag is set during INIT, before the
\* first test of the loop condition, the loop body never runs: nothing is
\* pushed, refilled, published or counted, both sample counters stay 0, and
\* the process still ends through the shutdown sequence.
C17_StopDuringInit ==
    sig_cycle = 0 =>
        /\ cycle = 0 /\ pc \notin InCycle
        /\ npush = 0 /\ nrefill = 0 /\ npublish = 0 /\ ncount = 0 /\ nsynth = 0
        /\ nrx = 0 /\ ntx = 0
        /\ checks <= 1
        /\ Terminated => shutdown_calls = 1

====
